---- MODULE Spec2Model ----
(***************************************************************************)
(* Model of the activation workflow of tuespazio/A12_Bypass_OSS.            *)
(*                                                                          *)
(* Four entry points drive the same workflow:                               *)
(*   "cli"    src/Mac_GUI/activator.py      BypassAutomation.run            *)
(*   "gui"    src/Mac_GUI/main.py           WorkerThread.run                *)
(*   "macos"  src/client/activator_macos.py run                             *)
(*   "legacy" src/client/activator.py       BypassAutomation.run            *)
(*                                                                          *)
(* Byte buffers are sequences of one-character strings; offsets are the     *)
(* 0-based offsets of the Python source (Byte(data, k) is data[k]).         *)
(***************************************************************************)
EXTENDS Integers, Sequences, FiniteSets, TLC

VARIABLES
    variant,            \* which entry point runs
    auto_confirm_guid,  \* BypassAutomation.auto_confirm_guid
    auto,               \* activator_macos.run(auto=...)
    preset_guid,        \* activator_macos.run(preset_guid=...), NoGuid when absent
    pc,                 \* position of the control thread
    ret,                \* where reboot_device returns to
    afc_mode,           \* BypassAutomation.afc_mode
    mount_dir,          \* the mount-point directory exists on disk
    mounted,            \* the device file area is mounted on the mount point
    device_info,        \* BypassAutomation.device_info / device
    guid,               \* BypassAutomation.guid / guid
    attempt_count,      \* BypassAutomation.attempt_count / attempt
    tracev3,            \* content of logdata.LiveData.tracev3 (tokens)
    log_archive,        \* the <udid>.logarchive directory exists
    candidates,         \* all_candidates / cands / candidates
    best,               \* best_guid of the attempt, NoGuid before the scoring
    found,              \* what the extraction attempt returned (NoGuid for None)
    poll_i,             \* loop index i of reboot_device
    rv,                 \* <<r>> when reboot_device has just returned r, <<>> once read
    db,                 \* downloads.28.sqlitedb as downloaded
    exit_code,          \* <<c>> once the process has exited with status c
    finished,           \* <<b>> once WorkerThread has emitted finished(b, msg)
    check_cmd,          \* the command MainWindow.check_device is waiting for, or None
    start_btn,          \* MainWindow.start_btn is enabled
    workers,            \* WorkerThread objects whose run has not returned
    hist                \* history of the run (observations, not program state)

vars == <<variant, auto_confirm_guid, auto, preset_guid, pc, ret, afc_mode,
          mount_dir, mounted, device_info, guid, attempt_count, tracev3,
          log_archive, candidates, best, found, poll_i, rv, db, exit_code,
          finished, check_cmd, start_btn, workers, hist>>

None == "None"      \* None, for the fields the model keeps as strings
NoGuid == <<>>      \* None where a GUID is expected (falsy, like the empty string)

(***************************************************************************)
(* Bytes                                                                    *)
(***************************************************************************)
Byte(data, k) == data[k + 1]

Min(S) == CHOOSE x \in S : \A y \in S : x <= y

UpperHex == {"0","1","2","3","4","5","6","7","8","9","A","B","C","D","E","F"}
LowerHex == {"a","b","c","d","e","f"}

\* bytes.upper() / str.upper() on the characters a GUID match can hold
upper_char(c) ==
    CASE c = "a" -> "A" [] c = "b" -> "B" [] c = "c" -> "C"
      [] c = "d" -> "D" [] c = "e" -> "E" [] c = "f" -> "F"
      [] OTHER -> c

upper(s) == [i \in 1..Len(s) |-> upper_char(s[i])]

\* pattern occurs in data at offset k
occurs_at(data, pattern, k) ==
    /\ k >= 0
    /\ k + Len(pattern) <= Len(data)
    /\ \A j \in 1..Len(pattern) : data[k + j] = pattern[j]

\* offsets taken by a loop that always resumes at the end of (or `step` after
\* the start of) the last hit: the least hit >= pos, then on from there
RECURSIVE scan_from(_, _, _)
scan_from(hits, pos, step) ==
    LET rest == {k \in hits : k >= pos}
    IN  IF rest = {} THEN <<>>
        ELSE <<Min(rest)>> \o scan_from(hits, Min(rest) + step, step)

\* pos = data.find(pattern, pos) ... pos += step, until -1
find_all(data, pattern, step) ==
    scan_from({k \in 0..(Len(data) - Len(pattern)) : occurs_at(data, pattern, k)}, 0, step)

(***************************************************************************)
(* The GUID pattern [0-9A-F]{8}-[0-9A-F]{4}-[0-9A-F]{4}-[0-9A-F]{4}-        *)
(* [0-9A-F]{12} with re.IGNORECASE                                          *)
(***************************************************************************)
GuidLen == 36
HyphenAt == {8, 13, 18, 23}

\* the pattern matches data[k : k+36], all of it before offset `stop`
guid_pattern_at(data, k, stop) ==
    /\ k >= 0
    /\ k + GuidLen <= stop
    /\ \A j \in 0..(GuidLen - 1) :
          IF j \in HyphenAt THEN Byte(data, k + j) = "-"
          ELSE Byte(data, k + j) \in UpperHex \cup LowerHex

\* guid_pattern.finditer(data[start:stop]): leftmost matches that do not
\* overlap, as offsets into data
finditer(data, start, stop) ==
    scan_from({k \in start..(stop - GuidLen) : guid_pattern_at(data, k, stop)},
              start, GuidLen)

\* UUID_PATTERN.match(s) with the ^...$ anchors: the whole string is one GUID
UUID_PATTERN_match(s) == Len(s) = GuidLen /\ guid_pattern_at(s, 0, GuidLen)

slice(data, k, n) == [i \in 1..n |-> data[k + i]]

max0(x) == IF x < 0 THEN 0 ELSE x
min2(x, y) == IF x < y THEN x ELSE y
abs(x) == IF x < 0 THEN -x ELSE x

(***************************************************************************)
(* Program constants of the scanners and scorers                            *)
(***************************************************************************)
window_size == 512          \* extract_guid_candidates(window_size=512), macos pos-512:pos+512
legacy_window == 1024       \* client/activator.py  pos - 1024, pos + len(needle) + 1024
close_threshold == 100      \* abs(p) < 100
count_weight == 10          \* score = count * 10
close_bonus == 5            \* len(close_positions) * 5
before_bonus == 3           \* len(before_positions) * 3
high_score == 30            \* best_score >= 30
medium_score == 15          \* best_score >= 15
macos_close == 32           \* abs(p) < 32
macos_bonus == 2            \* sum(2 for ...)
legacy_min_clean == 8       \* len(clean) >= 8

Anchor == <<"B","L","D","a","t","a","b","a","s","e","M","a","n","a","g","e","r">>
BLDatabase == <<"B","L","D","a","t","a","b","a","s","e">>
BLDatabaseManager_sqlite == <<"B","L","D","a","t","a","b","a","s","e","M","a","n","a","g","e","r",".","s","q","l","i","t","e">>
StoreIsAt == <<"b","o","o","k","a","s","s","e","t","d"," ","[","D","a","t","a","b","a","s","e","]",":"," ","S","t","o","r","e"," ","i","s"," ","a","t"," ","f","i","l","e",":","/","/","/","p","r","i","v","a","t","e","/","v","a","r","/","c","o","n","t","a","i","n","e","r","s","/","S","h","a","r","e","d","/","S","y","s","t","e","m","G","r","o","u","p">>

db_patterns == <<Anchor, BLDatabase, BLDatabaseManager_sqlite, StoreIsAt>>

(***************************************************************************)
(* src/Mac_GUI/activator.py: scanner and scorer                             *)
(***************************************************************************)
RECURSIVE signatures_from(_, _)
signatures_from(data, i) ==
    IF i > Len(db_patterns) THEN <<>>
    ELSE LET pattern == db_patterns[i]
             hits == find_all(data, pattern, Len(pattern))
         IN  [n \in 1..Len(hits) |-> [pattern |-> pattern, pos |-> hits[n]]]
             \o signatures_from(data, i + 1)

parse_tracev3_structure(data) == signatures_from(data, 1)

\* guid.split('-') gives five parts of lengths 8, 4, 4, 4, 12
parts_ok(g) ==
    /\ Len(g) = GuidLen
    /\ {i \in 1..Len(g) : g[i] = "-"} = {h + 1 : h \in HyphenAt}

validate_guid_structure(g) ==
    /\ parts_ok(g)
    /\ \A i \in 1..Len(g) : g[i] # "-" => g[i] \in UpperHex
    /\ g[15] = "4"                        \* parts[2][0], version
    /\ g[20] \in {"8", "9", "A", "B"}     \* parts[3][0], variant

extract_guid_candidates(data, context_pos) ==
    LET start == max0(context_pos - window_size)
        stop  == min2(Len(data), context_pos + window_size)
        ms    == finditer(data, start, stop)
        all   == [n \in 1..Len(ms) |->
                    [guid |-> upper(slice(data, ms[n], GuidLen)),
                     position |-> ms[n] - context_pos]]
        valid(c) == validate_guid_structure(c.guid)
    IN  SelectSeq(all, valid)

RECURSIVE flatten(_)
flatten(ss) == IF ss = <<>> THEN <<>> ELSE Head(ss) \o flatten(Tail(ss))

\* a loop that forgets to keep only the BLDatabaseManager signatures
collect_candidates_any_pattern(data) ==
    LET sigs == parse_tracev3_structure(data)
    IN  flatten([n \in 1..Len(sigs) |-> extract_guid_candidates(data, sigs[n].pos)])

\* the loop of get_guid_enhanced over the signatures: all_candidates
collect_candidates(data) ==
    LET isAnchor(sig) == sig.pattern = Anchor
        sigs == SelectSeq(parse_tracev3_structure(data), isAnchor)
    IN  flatten([n \in 1..Len(sigs) |-> extract_guid_candidates(data, sigs[n].pos)])

\* keys of Counter(...) in insertion order
RECURSIVE first_seen(_, _)
first_seen(cands, seen) ==
    IF cands = <<>> THEN <<>>
    ELSE IF Head(cands).guid \in seen THEN first_seen(Tail(cands), seen)
    ELSE <<Head(cands).guid>> \o first_seen(Tail(cands), seen \cup {Head(cands).guid})

positions_of(cands, g) == {n \in 1..Len(cands) : cands[n].guid = g}

\* a score that also counts the attempts of the session
score_of_session(cands, g) ==
    LET ns     == positions_of(cands, g)
        close  == {n \in ns : abs(cands[n].position) < close_threshold}
        before == {n \in ns : cands[n].position < 0}
    IN  Cardinality(ns) * count_weight
          + Cardinality(close) * close_bonus
          + Cardinality(before) * before_bonus
          + attempt_count

\* a score that gives an occurrence one point less
score_of_discounted(cands, g) ==
    LET ns     == positions_of(cands, g)
        close  == {n \in ns : abs(cands[n].position) < close_threshold}
        before == {n \in ns : cands[n].position < 0}
    IN  Cardinality(ns) * (count_weight - 1)
          + Cardinality(close) * close_bonus
          + Cardinality(before) * before_bonus

\* a score whose proximity bonus is worth two occurrences
score_of_generous(cands, g) ==
    LET ns     == positions_of(cands, g)
        close  == {n \in ns : abs(cands[n].position) < close_threshold}
        before == {n \in ns : cands[n].position < 0}
    IN  Cardinality(ns) * count_weight
          + Cardinality(close) * (2 * count_weight)
          + Cardinality(before) * before_bonus

score_of(cands, g) ==
    LET ns     == positions_of(cands, g)
        close  == {n \in ns : abs(cands[n].position) < close_threshold}
        before == {n \in ns : cands[n].position < 0}
    IN  Cardinality(ns) * count_weight
          + Cardinality(close) * close_bonus
          + Cardinality(before) * before_bonus

\* list.sort(key=score, reverse=True): stable, equal scores keep their order
RECURSIVE sort_desc(_)
sort_desc(s) ==
    IF s = <<>> THEN <<>>
    ELSE LET top == CHOOSE i \in 1..Len(s) :
                        /\ \A j \in 1..Len(s) : s[j].score <= s[i].score
                        /\ \A j \in 1..(i - 1) : s[j].score < s[i].score
         IN  <<s[top]>> \o sort_desc([n \in 1..(Len(s) - 1) |-> IF n < top THEN s[n] ELSE s[n + 1]])

\* a scorer that lists the identifiers latest discovery first
analyze_guid_confidence_latest_first(cands) ==
    LET keys == first_seen(cands, {})
        m == Len(keys)
    IN  sort_desc([n \in 1..m |->
                     [guid  |-> keys[m + 1 - n],
                      score |-> score_of(cands, keys[m + 1 - n]),
                      count |-> Cardinality(positions_of(cands, keys[m + 1 - n]))]])

analyze_guid_confidence(cands) ==
    LET keys == first_seen(cands, {})
    IN  sort_desc([n \in 1..Len(keys) |->
                     [guid  |-> keys[n],
                      score |-> score_of(cands, keys[n]),
                      count |-> Cardinality(positions_of(cands, keys[n]))]])

\* tiers whose thresholds are exclusive
confidence_exclusive(best_score) ==
    IF best_score > high_score THEN "HIGH"
    ELSE IF best_score > medium_score THEN "MEDIUM"
    ELSE "LOW"

confidence(best_score) ==
    IF best_score >= high_score THEN "HIGH"
    ELSE IF best_score >= medium_score THEN "MEDIUM"
    ELSE "LOW"

(***************************************************************************)
(* src/client/activator_macos.py: scanner and scorer                        *)
(***************************************************************************)
validate_guid(g) ==
    /\ UUID_PATTERN_match(g)
    /\ g[15] = "4"
    /\ g[20] \in {"8", "9", "A", "B"}

window_guids(data, pos) ==
    LET start == max0(pos - window_size)
        stop  == min2(Len(data), pos + window_size)
        ms    == finditer(data, start, stop)
        all   == [n \in 1..Len(ms) |->
                    [guid |-> upper(slice(data, ms[n], GuidLen)),
                     position |-> (ms[n] - start) + start - pos]]
        valid(c) == validate_guid(c.guid)
    IN  SelectSeq(all, valid)

parse_tracev3_guids(data) ==
    LET hits == find_all(data, Anchor, Len(Anchor))
    IN  flatten([n \in 1..Len(hits) |-> window_guids(data, hits[n])])

macos_score(cands, g) ==
    LET ns == positions_of(cands, g)
    IN  Cardinality(ns) * count_weight
          + Cardinality({n \in ns : abs(cands[n].position) < macos_close}) * macos_bonus

analyze_guids(cands) ==
    IF cands = <<>> THEN NoGuid
    ELSE LET keys == first_seen(cands, {})
             scored == sort_desc([n \in 1..Len(keys) |->
                          [guid |-> keys[n], score |-> macos_score(cands, keys[n])]])
         IN  scored[1].guid

(***************************************************************************)
(* src/client/activator.py: scanner inside get_guid_auto                    *)
(***************************************************************************)
\* guid.replace('0', '').replace('-', '') keeps at least 8 characters
not_trash(g) ==
    Cardinality({i \in 1..Len(g) : g[i] # "0" /\ g[i] # "-"}) >= legacy_min_clean

legacy_window_guids(data, pos) ==
    LET start == max0(pos - legacy_window)
        stop  == min2(Len(data), pos + Len(Anchor) + legacy_window)
        ms    == finditer(data, start, stop)
        all   == [n \in 1..Len(ms) |->
                    [guid |-> upper(slice(data, ms[n], GuidLen)),
                     position |-> ms[n] - pos]]
        kept(c) == not_trash(c.guid)
    IN  SelectSeq(all, kept)

\* the second while loop of get_guid_auto (pos += 1 after every hit)
legacy_candidates(data) ==
    LET hits == find_all(data, Anchor, 1)
    IN  flatten([n \in 1..Len(hits) |-> legacy_window_guids(data, hits[n])])

\* Counter(candidates).most_common(1)[0][0]
most_common(cands) ==
    LET keys == first_seen(cands, {})
        scored == sort_desc([n \in 1..Len(keys) |->
                     [guid |-> keys[n], score |-> Cardinality(positions_of(cands, keys[n]))]])
    IN  scored[1].guid

\* "CONFIDENT MATCH" (freq >= 2 or total == 1) or "Low-confidence GUID"
legacy_confidence(cands) ==
    LET freq == Cardinality(positions_of(cands, most_common(cands)))
    IN  IF freq >= 2 \/ Len(cands) = 1 THEN "HIGH" ELSE "LOW"

(***************************************************************************)
(* Trace files of the model: a file is a sequence of tokens, read_bytes     *)
(* gives its bytes (f.read() / trace_file.read_bytes())                     *)
(***************************************************************************)
MaxTokens == 2      \* tokens per trace file
PadNear == 90       \* bytes of the short filler
PadFar == 480       \* bytes of the long filler

G1 == <<"2","A","2","2","A","8","2","B","-","C","3","4","2","-","4","4","4","D","-","9","7","2","F","-","5","2","7","0","F","B","5","0","8","0","D","F">>
g1 == <<"2","a","2","2","a","8","2","b","-","c","3","4","2","-","4","4","4","d","-","9","7","2","f","-","5","2","7","0","f","b","5","0","8","0","d","f">>
G2 == <<"0","F","1","E","2","D","3","C","-","4","B","5","A","-","4","9","7","8","-","8","A","6","B","-","5","C","4","D","3","E","2","F","1","A","0","B">>
Gv == <<"2","A","2","2","A","8","2","B","-","C","3","4","2","-","1","4","4","D","-","9","7","2","F","-","5","2","7","0","F","B","5","0","8","0","D","F">>
Gx == <<"2","A","2","2","A","8","2","B","-","C","3","4","2","-","4","4","4","D","-","C","7","2","F","-","5","2","7","0","F","B","5","0","8","0","D","F">>
G0 == <<"0","0","0","0","0","0","0","0","-","0","0","0","0","-","0","0","0","0","-","0","0","0","0","-","0","0","0","0","0","0","0","0","0","0","0","0">>

\* G1 without its first group: behind G1 it makes a second GUID that begins
\* on the last eight digits of G1
G1Tail == <<"-","C","3","4","2","-","4","4","4","D","-","9","7","2","F","-","5","2","7","0","F","B","5","0","8","0","D","F">>

\* the filler that puts a GUID behind the anchor flush with the window's end
FitLen == window_size - Len(Anchor) - GuidLen

Tokens == {"anchor", "prefix", "G1", "g1", "G2", "Gv", "Gx", "G0", "pad", "far"}

token_bytes(t) ==
    CASE t = "anchor" -> Anchor
      [] t = "prefix" -> BLDatabase
      [] t = "G1" -> G1
      [] t = "g1" -> g1
      [] t = "G2" -> G2
      [] t = "Gv" -> Gv
      [] t = "Gx" -> Gx
      [] t = "G0" -> G0
      [] t = "pad" -> [i \in 1..PadNear |-> "."]
      [] t = "far" -> [i \in 1..PadFar |-> "."]
      [] t = "tail" -> G1Tail
      [] t = "fit" -> [i \in 1..FitLen |-> "."]
      [] t = "dot" -> <<".">>

read_bytes(file) == flatten([n \in 1..Len(file) |-> token_bytes(file[n])])


(***************************************************************************)
(* Inputs of a run                                                          *)
(***************************************************************************)
Variants == {"cli", "gui", "macos", "legacy"}

max_attempts == 10      \* self.max_attempts = 10, get_guid_auto(max_attempts=10)
max_polls == 60         \* for i in range(60)
MaxRows == 1            \* rows of table asset in a downloaded payload

\* what ideviceinfo can report
DeviceInfos ==
    {[UniqueDeviceID |-> "00008030-XYZ", ProductType |-> "iPhone12,1", SerialNumber |-> "ABC123"],
     [UniqueDeviceID |-> "00008101-QRS", ProductType |-> "iPhone13,2", SerialNumber |-> "DEF456"]}

\* what the operator can type at the GUID prompt
ManualInputs == {G1, g1, Gv, <<"n", "o">>}

\* what --guid can carry: argparse hands the string over as typed
PresetGuids == {NoGuid, G1, g1, <<"n", "o">>}

\* trace files a log collection can produce during a run
WorkflowFiles ==
    {<<"prefix">>,                  \* no anchor
     <<"anchor", "Gv">>,            \* anchor, only a GUID with a wrong version nibble
     <<"anchor", "pad", "G1">>,     \* one far occurrence after the anchor
     <<"G1", "anchor">>,            \* one close occurrence before the anchor
     <<"anchor", "G1", "g1">>}      \* two close occurrences

\* trace files with two identifiers competing
RankingFiles ==
    {<<"anchor", "G2", "G1">>,          \* equal scores, G2 discovered first
     <<"G2", "pad", "anchor", "G1">>,   \* G2 discovered first, G1 scores higher
     <<"anchor", "G1", "pad", "G2">>}   \* G1 discovered first and scores higher

\* trace files with a GUID at an edge of the anchor's window, or two GUIDs
\* sharing bytes
EdgeFiles ==
    {<<"anchor", "fit", "G1">>,           \* G1 ends on the last byte of the window
     <<"anchor", "fit", "dot", "G1">>,    \* G1 ends one byte behind the window
     <<"anchor", "far", "G1">>,           \* G1 begins inside, ends outside
     <<"G1", "far", "anchor">>,           \* G1 begins in front of the window
     <<"G1", "pad", "anchor", "pad", "G2">>,  \* one GUID on each side
     <<"anchor", "G1", "tail">>,          \* a valid GUID, a second one on its last group
     <<"anchor", "Gv", "tail">>}          \* the same behind a GUID of version 1

\* trace files with more than one occurrence of the anchor
RepeatFiles ==
    {<<"anchor", "G1", "anchor">>,            \* one GUID in the windows of two anchors
     <<"anchor", "G1", "anchor", "anchor">>,  \* ... of three anchors
     <<"anchor", "far", "anchor", "G1">>,     \* behind the window of the first anchor only
     <<"anchor", "G2", "anchor", "G1">>,      \* two GUIDs, two anchors
     <<"anchor", "pad", "pad", "G1", "g1", "G1">>,        \* three far occurrences
     <<"anchor", "pad", "pad", "G1", "g1", "G1", "G2">>}  \* ... and a single one

\* trace files an attempt is examined on: every file of at most MaxTokens
\* tokens, and the longer ones above
TraceFiles ==
    UNION {[1..n -> Tokens] : n \in 0..MaxTokens}
        \cup WorkflowFiles \cup RankingFiles \cup EdgeFiles \cup RepeatFiles

\* downloads.28.sqlitedb as the server can deliver it
Payloads ==
    {[sqlite |-> FALSE, asset |-> FALSE, rows |-> 0, columns |-> FALSE],
     [sqlite |-> TRUE,  asset |-> FALSE, rows |-> 0, columns |-> FALSE]}
    \cup {[sqlite |-> TRUE, asset |-> TRUE, rows |-> n, columns |-> c] :
            n \in 0..MaxRows, c \in BOOLEAN}

\* self.device_info = {}
NoDevice == [UniqueDeviceID |-> "", ProductType |-> "", SerialNumber |-> ""]

NoPayload == [sqlite |-> FALSE, asset |-> FALSE, rows |-> 0, columns |-> FALSE]

\* no scored decision: the candidate list was empty
NoDecision == [guid |-> NoGuid, score |-> 0, count |-> 0]

Hist0 ==
    [steps |-> <<>>,            \* milestones of the run, in order
     pushed |-> FALSE,          \* a file push has been issued to the device
     removed |-> FALSE,         \* a file remove has been issued to the device
     reboots |-> 0,             \* reboot_device calls
     retry_reboots |-> 0,       \* of these, calls made by the GUID retry loop
     attempts |-> 0,            \* extraction attempts
     since |-> <<>>,            \* reboot / detect events since the last attempt
     tier |-> None,             \* confidence of the current attempt's decision
     asked |-> FALSE,           \* the current attempt asked for confirmation
     approved |-> FALSE,        \* ... and the confirmation was given
     preload_failed |-> FALSE,  \* a pre-load of the step just taken failed
     downloaded |-> FALSE,      \* _curl_download of the final payload returned True
     api_answer |-> None,       \* what the payload API answered
     requests |-> <<>>,         \* the query strings sent to the payload API
     absent |-> None,           \* the tool found missing, until the device is queried
     reported |-> NoGuid,       \* the GUID printed by the completion report
     booted |-> FALSE,          \* some reboot_device call returned True
     polled |-> "none",         \* device-info queries of the reboot_device call just
                                \* returned: "none", "some", or "all" max_polls of them
     answered |-> FALSE,        \* ... and the last of them succeeded
     decision |-> NoDecision,   \* winner, score and count of the current attempt
     prior |-> <<NoDecision, None>>,  \* decision and tier of the attempt before
     buffer |-> <<>>,           \* the trace file a repeated attempt reads again
     exhausted |-> FALSE,       \* every automatic attempt has failed
     validated |-> FALSE,       \* the final payload passed validation
     started |-> 0,             \* workers MainWindow.start_activation has started
     uploaded |-> FALSE,        \* the payload upload succeeded
     copied |-> 0,              \* relocation copies that put the file at its destination
     outcome |-> None,          \* "complete", "fatal" or "interrupt"
     fatal_at |-> None]         \* position at which a fatal error ended the run

Init ==
    /\ variant \in Variants
    /\ auto_confirm_guid = (variant = "gui")
    /\ auto \in (IF variant = "macos" THEN BOOLEAN ELSE {FALSE})
    /\ preset_guid \in (IF variant = "macos" THEN PresetGuids ELSE {NoGuid})
    /\ pc = "start"
    /\ ret = None
    /\ afc_mode = None
    /\ mount_dir = FALSE
    /\ mounted = FALSE
    /\ device_info = NoDevice
    /\ guid = NoGuid
    /\ attempt_count = 0
    /\ tracev3 = <<>>
    /\ log_archive = FALSE
    /\ candidates = <<>>
    /\ best = NoGuid
    /\ found = NoGuid
    /\ poll_i = 0
    /\ rv = <<>>
    /\ db = NoPayload
    /\ exit_code = <<>>
    /\ finished = <<>>
    /\ check_cmd = None
    /\ start_btn = FALSE
    /\ workers = (IF variant = "gui" THEN 1 ELSE 0)
    /\ hist = [Hist0 EXCEPT !.started = workers]

config == <<variant, auto_confirm_guid, auto, preset_guid>>
mount_vars == <<afc_mode, mount_dir, mounted>>
extract_vars == <<tracev3, log_archive, candidates, best, found>>
reboot_vars == <<ret, poll_i, rv>>
end_vars == <<exit_code, finished, check_cmd, start_btn, workers>>

step(h, name) == [h EXCEPT !.steps = Append(@, name)]

(***************************************************************************)
(* The main line of each entry point, in statement order.  "acquire" stands *)
(* for the whole GUID acquisition, "reboot1/2/3" for the three calls of     *)
(* reboot_device after the upload.                                          *)
(***************************************************************************)
\* a main line that uploads the payload before validating it
run_order_upload_first(v) ==
    CASE v = "cli" ->
           <<"start", "detect", "acquire", "guid_done", "fetch_urls", "preload",
             "download", "mount", "upload", "validate", "cleanup_wal",
             "reboot1", "copy_fwd", "reboot2", "copy_back", "reboot3", "complete">>
      [] v = "gui" ->
           <<"start", "detect", "acquire", "guid_done", "fetch_urls", "preload",
             "download", "mount", "upload", "validate", "cleanup_wal",
             "reboot1", "wait_file", "copy_fwd", "reboot2", "copy_back", "reboot3",
             "complete">>
      [] v = "macos" ->
           <<"start", "detect", "acquire", "guid_done", "fetch_urls", "preload",
             "download", "cleanup_wal", "upload", "validate",
             "reboot1", "copy_fwd", "reboot2", "copy_back", "reboot3", "complete">>
      [] v = "legacy" ->
           <<"start", "detect", "acquire", "guid_done", "fetch_urls", "preload",
             "download", "mount", "upload", "validate", "complete">>

\* a main line that requests the first reboot before the upload
run_order_reboot_first(v) ==
    CASE v = "cli" ->
           <<"start", "detect", "acquire", "guid_done", "fetch_urls", "preload",
             "download", "validate", "reboot1", "mount", "upload", "cleanup_wal",
             "copy_fwd", "reboot2", "copy_back", "reboot3", "complete">>
      [] v = "gui" ->
           <<"start", "detect", "acquire", "guid_done", "fetch_urls", "preload",
             "download", "validate", "reboot1", "mount", "upload", "cleanup_wal",
             "wait_file", "copy_fwd", "reboot2", "copy_back", "reboot3",
             "complete">>
      [] v = "macos" ->
           <<"start", "detect", "acquire", "guid_done", "fetch_urls", "preload",
             "download", "validate", "cleanup_wal", "reboot1", "upload",
             "copy_fwd", "reboot2", "copy_back", "reboot3", "complete">>
      [] v = "legacy" ->
           <<"start", "detect", "acquire", "guid_done", "fetch_urls", "preload",
             "download", "validate", "mount", "upload", "complete">>

run_order(v) ==
    CASE v = "cli" ->
           <<"start", "detect", "acquire", "guid_done", "fetch_urls", "preload",
             "download", "validate", "mount", "upload", "cleanup_wal",
             "reboot1", "copy_fwd", "reboot2", "copy_back", "reboot3", "complete">>
      [] v = "gui" ->
           <<"start", "detect", "acquire", "guid_done", "fetch_urls", "preload",
             "download", "validate", "mount", "upload", "cleanup_wal",
             "reboot1", "wait_file", "copy_fwd", "reboot2", "copy_back", "reboot3",
             "complete">>
      [] v = "macos" ->
           <<"start", "detect", "acquire", "guid_done", "fetch_urls", "preload",
             "download", "validate", "cleanup_wal", "upload",
             "reboot1", "copy_fwd", "reboot2", "copy_back", "reboot3", "complete">>
      [] v = "legacy" ->
           <<"start", "detect", "acquire", "guid_done", "fetch_urls", "preload",
             "download", "validate", "mount", "upload", "complete">>

next_step(p) ==
    LET order == run_order(variant)
        i == CHOOSE n \in 1..Len(order) : order[n] = p
    IN  order[i + 1]

\* the validation block of each entry point accepts the downloaded file
validation_passes(v, f) ==
    CASE v \in {"cli", "legacy"} -> f.sqlite /\ f.asset /\ f.rows > 0 /\ f.columns
      [] v = "macos" -> f.sqlite /\ f.asset /\ f.rows > 0
      [] v = "gui" -> f.sqlite /\ f.asset /\ f.rows > 0

\* atexit.register(self._cleanup) -> unmount_afc, when the process ends
unmount_afc ==
    IF afc_mode = "ifuse" /\ mount_dir
    THEN mount_dir' = FALSE /\ mounted' = FALSE /\ afc_mode' = afc_mode
    ELSE UNCHANGED mount_vars

\* the exit status each __main__ gives a KeyboardInterrupt
interrupt_code(v) == IF v = "macos" THEN 1 ELSE 0

\* positions inside the try block whose finally removes the log archive
in_finally(p) == p \in {"scan", "score", "confirm"}

\* The process ends with `code` (the desktop worker only reports and
\* returns).  The object and the locals of the run are gone; what stays is
\* on disk: the downloaded file, a log archive no finally removed, the mount.
Leave(h, code, ok) ==
    /\ pc' = "exit"
    /\ hist' = [h EXCEPT !.polled = "none", !.answered = FALSE]
    /\ IF variant = "gui"
       THEN /\ finished' = <<ok>> /\ exit_code' = exit_code /\ UNCHANGED mount_vars
            /\ workers' = workers - 1       \* run returns after the emit
       ELSE /\ exit_code' = <<code>> /\ finished' = finished /\ unmount_afc
            /\ workers' = workers
    /\ check_cmd' = check_cmd
    /\ start_btn' = start_btn
    /\ log_archive' = (log_archive /\ ~in_finally(pc))
    /\ ret' = None /\ poll_i' = 0 /\ rv' = <<>>
    /\ device_info' = NoDevice /\ guid' = NoGuid /\ attempt_count' = 0
    /\ tracev3' = <<>> /\ candidates' = <<>> /\ best' = NoGuid /\ found' = NoGuid
    /\ db' = IF variant = "macos" /\ h.fatal_at = "validate"
             THEN NoPayload          \* Path(db_local).unlink(missing_ok=True)
             ELSE db
    /\ UNCHANGED config

\* an unrecoverable error at position `where`: sys.exit(1), or an exception
\* that reaches __main__ (exit 1) or the worker's except (finished(False))
Abort(h, where) ==
    Leave([h EXCEPT !.outcome = "fatal", !.fatal_at = where], 1, FALSE)

(***************************************************************************)
(* verify_dependencies / the dependency loop of activator_macos.run         *)
(***************************************************************************)
\* the external tools every entry point runs: ideviceinfo (detect_device,
\* reboot_device), pymobiledevice3 (syslog collect, restart, afc) and curl (the
\* payload API and the downloads); idevice_id is looked up by the dependency
\* check and run by collect_and_extract_guid
Tools == {"ideviceinfo", "idevice_id", "pymobiledevice3", "curl"}

\* the tools the dependency check of the entry point looks for
checked_tools(v) ==
    CASE v \in {"cli", "gui"} -> {"ideviceinfo", "idevice_id"}
      [] v = "macos" -> {"ideviceinfo", "idevice_id", "pymobiledevice3"}
      [] v = "legacy" -> {}        \* verify_dependencies only selects the backend

VerifyDependencies ==
    /\ pc = "start"
    /\ \E absent \in Tools \cup {None}, ifuse \in BOOLEAN :
          IF absent \in checked_tools(variant)
          THEN Abort([hist EXCEPT !.absent = absent], "start")
          ELSE /\ afc_mode' = IF variant = "macos" THEN afc_mode
                              ELSE IF ifuse THEN "ifuse" ELSE "pymobiledevice3"
               /\ pc' = next_step(pc)
               /\ hist' = [step(hist, "DependencyCheck") EXCEPT !.absent = absent]
               /\ UNCHANGED <<config, mount_dir, mounted, device_info, guid,
                              attempt_count, extract_vars, reboot_vars, db, end_vars>>

(***************************************************************************)
(* detect_device                                                            *)
(***************************************************************************)
DetectDevice ==
    /\ pc = "detect"
    /\ \E ok \in BOOLEAN, info \in DeviceInfos :
          \* ideviceinfo cannot answer when it is not there
          /\ ok => hist.absent # "ideviceinfo"
          /\ IF ~ok
             THEN Abort([hist EXCEPT !.absent = None], "detect")
             ELSE /\ device_info' = info
                  /\ pc' = next_step(pc)
                  /\ hist' = [step(hist, "DeviceDetected") EXCEPT !.absent = None]
                  /\ UNCHANGED <<config, mount_vars, guid, attempt_count,
                                 extract_vars, reboot_vars, db, end_vars>>

(***************************************************************************)
(* The GUID source: the menu of run, --auto, --guid, or the worker's        *)
(* unconditional get_guid_auto                                              *)
(***************************************************************************)
\* where automatic acquisition starts: the retry loop, or the single
\* attempt of client/activator.py
auto_entry(v) == IF v = "legacy" THEN "collect" ELSE "auto_loop"

Acquire ==
    /\ pc = "acquire"
    /\ \E choice \in {"1", "2"} :
          LET source ==
                CASE variant = "gui" -> "auto"
                  [] variant = "macos" /\ preset_guid # NoGuid -> "preset"
                  [] variant = "macos" /\ auto -> "auto"
                  [] OTHER -> IF choice = "1" THEN "auto" ELSE "manual"
          IN  /\ pc' = CASE source = "auto" -> auto_entry(variant)
                         [] source = "preset" -> next_step(pc)
                         [] source = "manual" -> "manual"
              /\ guid' = IF source = "preset" THEN preset_guid ELSE guid
              /\ attempt_count' = IF source = "auto" THEN 0 ELSE attempt_count
    /\ UNCHANGED <<config, mount_vars, device_info, extract_vars, reboot_vars,
                   db, end_vars, hist>>

\* get_guid_manual: re-prompt until the input is accepted
manual_accepts(v, typed) ==
    IF v = "macos" THEN validate_guid(upper(typed)) ELSE UUID_PATTERN_match(typed)

GetGuidManual ==
    /\ pc = "manual"
    /\ \E typed \in ManualInputs :
          IF manual_accepts(variant, typed)
          THEN guid' = upper(typed) /\ pc' = next_step("acquire")
          ELSE UNCHANGED <<guid, pc>>
    /\ UNCHANGED <<config, mount_vars, device_info, attempt_count, extract_vars,
                   reboot_vars, db, end_vars, hist>>

(***************************************************************************)
(* Automatic acquisition: get_guid_auto_with_retry (cli, gui) and           *)
(* get_guid_auto (macos)                                                    *)
(***************************************************************************)
\* a loop test that is off by one
loop_continues_inclusive(n) == n <= max_attempts

\* while self.attempt_count < self.max_attempts / for attempt in range(1, max_attempts + 1)
loop_continues(n) == n < max_attempts

\* a retry test that reboots after the last attempt as well
retry_allowed_inclusive(n) == n <= max_attempts

\* if self.attempt_count < self.max_attempts / if attempt < max_attempts
retry_allowed(n) == n < max_attempts

\* what follows the loop once every attempt has failed
on_exhausted(v) ==
    CASE v = "cli" -> "manual"          \* run: self.guid = self.get_guid_manual()
      [] v = "gui" -> "substitute"      \* guid = "00000000-0000-0000-0000-000000000000"
      [] v = "macos" -> "raise"         \* raise RuntimeError("GUID auto-detection failed ...")

AutoLoop ==
    /\ pc = "auto_loop"
    /\ IF loop_continues(attempt_count)
       THEN /\ pc' = "collect"
            /\ UNCHANGED <<config, guid, mount_vars, device_info, attempt_count,
                           extract_vars, reboot_vars, db, end_vars, hist>>
       ELSE CASE on_exhausted(variant) = "manual" ->
                   /\ pc' = "manual"
                   /\ hist' = [hist EXCEPT !.exhausted = TRUE]
                   /\ UNCHANGED <<config, guid, mount_vars, device_info, attempt_count,
                                  extract_vars, reboot_vars, db, end_vars>>
              [] on_exhausted(variant) = "substitute" ->
                   /\ guid' = G0
                   /\ pc' = next_step("acquire")
                   /\ hist' = [hist EXCEPT !.exhausted = TRUE]
                   /\ UNCHANGED <<config, mount_vars, device_info, attempt_count,
                                  extract_vars, reboot_vars, db, end_vars>>
              [] on_exhausted(variant) = "raise" ->
                   Abort([hist EXCEPT !.exhausted = TRUE], "acquire")

\* the attempt returns `value`: its locals go away and, where the code has a
\* cleanup on this path, so does the log archive
Return(value, archive) ==
    /\ found' = value
    /\ log_archive' = archive
    /\ tracev3' = <<>>
    /\ candidates' = <<>>
    /\ best' = NoGuid
    /\ pc' = "attempt_done"

\* the start of one attempt, up to the point where the trace file is read
Collect ==
    /\ pc = "collect"
    /\ \E outcome \in {"no_udid", "collect_failed", "no_trace", "ok"},
          partial \in BOOLEAN, file \in WorkflowFiles :
          LET h == [hist EXCEPT !.attempts = @ + 1, !.since = <<>>]
              n == IF variant = "legacy" THEN attempt_count ELSE attempt_count + 1
              others == <<config, mount_vars, device_info, guid, reboot_vars,
                          db, end_vars>>
          IN  CASE outcome = "no_udid" ->
                     \* only collect_and_extract_guid asks idevice_id for the UDID
                     /\ variant = "macos"
                     /\ Abort(h, "acquire")
                [] outcome = "collect_failed" ->
                     /\ Return(NoGuid, IF variant \in {"cli", "gui"} THEN FALSE ELSE partial)
                     /\ attempt_count' = n
                     /\ hist' = h
                     /\ UNCHANGED others
                [] outcome = "no_trace" ->
                     /\ Return(NoGuid, variant = "macos")
                     /\ attempt_count' = n
                     /\ hist' = h
                     /\ UNCHANGED others
                [] outcome = "ok" ->
                     /\ tracev3' = file
                     /\ log_archive' = TRUE
                     /\ pc' = "scan"
                     /\ attempt_count' = n
                     /\ hist' = h
                     /\ UNCHANGED <<candidates, best, found>>
                     /\ UNCHANGED others

\* the candidates of the trace file, by the scanner of the entry point
scan(v, data) ==
    CASE v \in {"cli", "gui"} -> collect_candidates(data)
      [] v = "macos" -> parse_tracev3_guids(data)
      [] v = "legacy" -> legacy_candidates(data)

\* an empty candidate list ends the attempt at once (macos leaves it to
\* analyze_guids)
Scan ==
    /\ pc = "scan"
    /\ LET cands == scan(variant, read_bytes(tracev3))
       IN  IF cands = <<>> /\ variant # "macos"
           THEN Return(NoGuid, FALSE)
           ELSE /\ candidates' = cands
                /\ pc' = "score"
                /\ UNCHANGED <<tracev3, log_archive, best, found>>
    /\ UNCHANGED <<config, mount_vars, device_info, guid, attempt_count,
                   reboot_vars, db, end_vars, hist>>

\* best_guid, best_score, best_count = scored_guids[0]; the top entry of
\* analyze_guids; counts.most_common(1)[0]
decision_of(v, cands) ==
    IF cands = <<>> THEN NoDecision
    ELSE CASE v \in {"cli", "gui"} -> analyze_guid_confidence(cands)[1]
           [] v = "macos" ->
                LET g == analyze_guids(cands)
                IN  [guid |-> g, score |-> macos_score(cands, g),
                     count |-> Cardinality(positions_of(cands, g))]
           [] v = "legacy" ->
                LET g == most_common(cands)
                    freq == Cardinality(positions_of(cands, g))
                IN  [guid |-> g, score |-> freq, count |-> freq]

\* confirmation is asked for every tier but HIGH
needs_confirmation(tier) == tier \in {"LOW", "MEDIUM"}

Score ==
    /\ pc = "score"
    /\ CASE variant \in {"cli", "gui"} ->
              LET top == decision_of(variant, candidates)
                  tier == confidence(top.score)
              IN  /\ hist' = [hist EXCEPT !.tier = tier, !.asked = needs_confirmation(tier),
                                          !.decision = top]
                  /\ IF needs_confirmation(tier)
                     THEN /\ best' = top.guid
                          /\ pc' = "confirm"
                          /\ UNCHANGED <<tracev3, log_archive, candidates, found>>
                     ELSE Return(top.guid, FALSE)
         [] variant = "macos" ->
              /\ Return(decision_of(variant, candidates).guid, FALSE)
              /\ hist' = [hist EXCEPT !.decision = decision_of(variant, candidates)]
         [] variant = "legacy" ->
              /\ Return(decision_of(variant, candidates).guid, FALSE)
              /\ hist' = [hist EXCEPT !.tier = legacy_confidence(candidates),
                                      !.decision = decision_of(variant, candidates)]
    /\ UNCHANGED <<config, mount_vars, device_info, guid, attempt_count,
                   reboot_vars, db, end_vars>>

\* confirm_guid_manual
Confirm ==
    /\ pc = "confirm"
    /\ \E response \in {"y", "n"} :
          LET approved == auto_confirm_guid \/ response = "y"
          IN  /\ Return(IF approved THEN best ELSE NoGuid, FALSE)
              /\ hist' = [hist EXCEPT !.approved = approved]
    /\ UNCHANGED <<config, mount_vars, device_info, guid, attempt_count,
                   reboot_vars, db, end_vars>>

\* what the caller does with the result of one attempt
AttemptDone ==
    /\ pc = "attempt_done"
    /\ LET h == [hist EXCEPT !.tier = None, !.asked = FALSE, !.approved = FALSE,
                             !.decision = NoDecision]
       IN  CASE found # NoGuid ->
                  /\ guid' = found
                  /\ pc' = next_step("acquire")
                  /\ hist' = h
                  /\ UNCHANGED reboot_vars
             [] found = NoGuid /\ variant = "legacy" ->
                  /\ pc' = "manual"
                  /\ hist' = h
                  /\ UNCHANGED <<guid, reboot_vars>>
             [] found = NoGuid /\ variant # "legacy" /\ retry_allowed(attempt_count) ->
                  /\ pc' = "reboot_primary"
                  /\ ret' = "redetect"
                  /\ hist' = [h EXCEPT !.reboots = @ + 1, !.retry_reboots = @ + 1,
                                       !.since = Append(@, "reboot")]
                  /\ UNCHANGED <<guid, poll_i, rv>>
             [] found = NoGuid /\ variant # "legacy" /\ ~retry_allowed(attempt_count) ->
                  /\ pc' = "auto_loop"
                  /\ hist' = h
                  /\ UNCHANGED <<guid, reboot_vars>>
    /\ found' = NoGuid
    /\ UNCHANGED <<config, mount_vars, device_info, attempt_count, tracev3,
                   log_archive, candidates, best, db, end_vars>>

\* detect_device after the reboot of a failed attempt
Redetect ==
    /\ pc = "redetect"
    /\ \E ok \in BOOLEAN, info \in DeviceInfos :
          IF ~ok
          THEN Abort(hist, "acquire")
          ELSE /\ device_info' = IF variant = "macos" THEN device_info ELSE info
               /\ rv' = <<>>
               /\ pc' = "auto_loop"
               /\ hist' = [hist EXCEPT !.since = Append(@, "detect"),
                                       !.polled = "none", !.answered = FALSE]
               /\ UNCHANGED <<config, mount_vars, guid, attempt_count, extract_vars,
                              ret, poll_i, db, end_vars>>

(***************************************************************************)
(* reboot_device                                                            *)
(***************************************************************************)
\* a caller that gives up when reboot_device returns False
after_reboot_fatal(site, result) == IF result THEN site ELSE "exit"

\* where the caller goes on once reboot_device has returned: "continuing
\* anyway" / "proceeding anyway" / result unused, at every call site
after_reboot(site, result) == site

\* a reboot that asks the operator as soon as the first command fails
on_restart_failure_no_fallback(p) == "reboot_manual"

\* if code != 0: after pymobiledevice3 restart the idevicediagnostics restart,
\* after that one the manual prompt
on_restart_failure(p) ==
    IF p = "reboot_primary" THEN "reboot_fallback" ELSE "reboot_manual"

\* pymobiledevice3 restart
RebootPrimary ==
    /\ pc = "reboot_primary"
    /\ \E ok \in BOOLEAN :
          IF ok THEN pc' = "reboot_poll" /\ poll_i' = 0
          ELSE pc' = on_restart_failure(pc) /\ UNCHANGED poll_i
    /\ UNCHANGED <<config, mount_vars, device_info, guid, attempt_count,
                   extract_vars, ret, rv, db, end_vars, hist>>

\* idevicediagnostics restart
RebootFallback ==
    /\ pc = "reboot_fallback"
    /\ \E ok \in BOOLEAN :
          IF ok THEN pc' = "reboot_poll" /\ poll_i' = 0
          ELSE pc' = on_restart_failure(pc) /\ UNCHANGED poll_i
    /\ UNCHANGED <<config, mount_vars, device_info, guid, attempt_count,
                   extract_vars, ret, rv, db, end_vars, hist>>

\* "reboot device manually and press Enter": input(), return True
RebootManual ==
    /\ pc = "reboot_manual"
    /\ rv' = <<TRUE>>
    /\ pc' = after_reboot(ret, TRUE)
    /\ hist' = [hist EXCEPT !.booted = TRUE]
    /\ UNCHANGED <<config, mount_vars, device_info, guid, attempt_count,
                   extract_vars, ret, poll_i, db, end_vars>>

\* how much of its budget a wait that returns in iteration i has used
budget_used(i) == IF i + 1 = max_polls THEN "all" ELSE "some"

\* a wait that gives up one query early
poll_again_short(i) == i + 1 < max_polls - 1

\* for i in range(60): there is an iteration after iteration i
poll_again(i) == i + 1 < max_polls

\* one iteration of for i in range(60): sleep, ideviceinfo; on success the
\* extra sleep and return True, after the last iteration return False
RebootPoll ==
    /\ pc = "reboot_poll"
    /\ \E ok \in BOOLEAN, kept \in BOOLEAN :
          CASE ok ->
                 /\ rv' = <<TRUE>> /\ pc' = after_reboot(ret, TRUE) /\ poll_i' = 0
                 /\ mounted' = (mounted /\ kept)
                 /\ hist' = [hist EXCEPT !.booted = TRUE, !.polled = budget_used(poll_i),
                                         !.answered = TRUE]
            [] ~ok /\ poll_again(poll_i) ->
                 /\ poll_i' = poll_i + 1 /\ UNCHANGED <<rv, pc, hist>>
                 /\ mounted' = mounted
            [] ~ok /\ ~poll_again(poll_i) ->
                 /\ rv' = <<FALSE>> /\ pc' = after_reboot(ret, FALSE) /\ poll_i' = 0
                 /\ mounted' = (mounted /\ kept)
                 /\ hist' = [hist EXCEPT !.polled = budget_used(poll_i), !.answered = FALSE]
    \* the device the mount point was attached to has gone away and come back:
    \* the "mount" listing may or may not still show the mount point
    /\ UNCHANGED <<config, afc_mode, mount_dir, device_info, guid, attempt_count,
                   extract_vars, ret, db, end_vars>>

\* the three calls of reboot_device on the main line
reboot_name(p) ==
    CASE p = "reboot1" -> "FirstReboot"
      [] p = "reboot2" -> "SecondReboot"
      [] p = "reboot3" -> "FinalReboot"

CallReboot ==
    /\ pc \in {"reboot1", "reboot2", "reboot3"}
    /\ pc' = "reboot_primary"
    /\ ret' = next_step(pc)
    /\ hist' = [step(hist, reboot_name(pc)) EXCEPT !.reboots = @ + 1]
    /\ UNCHANGED <<config, mount_vars, device_info, guid, attempt_count,
                   extract_vars, poll_i, rv, db, end_vars>>

(***************************************************************************)
(* The main line from the accepted GUID to the validated payload            *)
(***************************************************************************)
GuidDone ==
    /\ pc = "guid_done"
    /\ pc' = next_step(pc)
    /\ hist' = step(hist, "GuidAccepted")
    /\ UNCHANGED <<config, mount_vars, device_info, guid, attempt_count,
                   extract_vars, reboot_vars, db, end_vars>>


\* a query string with the serial number ahead of the GUID
query_string_sn_first(prd, g, sn) == <<"prd=", prd, "&sn=", sn, "&guid=", g>>

\* params = f"prd={prd}&guid={guid}&sn={sn}"
query_string(prd, g, sn) == <<"prd=", prd, "&guid=", g, "&sn=", sn>>

\* a check of the answer that asks for the final link only
urls_complete_final_only(answer) == answer \in {"ok", "missing_link"}

\* the three links came back: curl exited 0, the body is JSON with a true
\* 'success' and links.step1_fixedfile, step2_bldatabase and step3_final
urls_complete(answer) == answer = "ok"

\* get_all_urls_from_server and the check of its three results
FetchUrls ==
    /\ pc = "fetch_urls"
    /\ \E answer \in {"ok", "request_failed", "not_success", "bad_json", "missing_link"} :
          LET h == [hist EXCEPT
                       !.api_answer = answer,
                       !.requests = Append(@, query_string(device_info.ProductType, guid,
                                                           device_info.SerialNumber))]
          IN  IF urls_complete(answer)
              THEN /\ pc' = next_step(pc)
                   /\ hist' = step(h, "PayloadUrlsFetched")
                   /\ UNCHANGED <<config, mount_vars, device_info, guid, attempt_count,
                                  extract_vars, reboot_vars, db, end_vars>>
              ELSE Abort(h, "fetch_urls")

\* a pre-download loop that gives up on the first stage that fails
on_preload_failure_abort(v) == "abort"

\* what the pre-download loop does with a False from preload_stage: the
\* result is not read, the warning of preload_stage is all there is
on_preload_failure(v) == "warn"

\* preload_stage / the pre-download loop: a failed stage is only logged
Preload ==
    /\ pc = "preload"
    /\ \E failed \in BOOLEAN :
          IF failed /\ on_preload_failure(variant) = "abort"
          THEN Abort(hist, "preload")
          ELSE /\ pc' = next_step(pc)
               /\ hist' = [step(hist, "PayloadsPreloaded") EXCEPT !.preload_failed = failed]
               /\ UNCHANGED <<config, mount_vars, device_info, guid, attempt_count,
                              extract_vars, reboot_vars, db, end_vars>>

\* the download of the final payload
Download ==
    /\ pc = "download"
    /\ \E ok \in BOOLEAN, file \in Payloads :
          LET h == [hist EXCEPT !.preload_failed = FALSE]
          IN  IF ok
              THEN /\ db' = file
                   /\ pc' = next_step(pc)
                   /\ hist' = [h EXCEPT !.downloaded = TRUE]
                   /\ UNCHANGED <<config, mount_vars, device_info, guid, attempt_count,
                                  extract_vars, reboot_vars, end_vars>>
              ELSE Abort(h, "download")

Validate ==
    /\ pc = "validate"
    /\ IF validation_passes(variant, db)
       THEN /\ pc' = next_step(pc)
            /\ hist' = [step(hist, "FinalPayloadValidated") EXCEPT !.validated = TRUE]
            /\ UNCHANGED <<config, mount_vars, device_info, guid, attempt_count,
                           extract_vars, reboot_vars, db, end_vars>>
       ELSE Abort(hist, "validate")

(***************************************************************************)
(* Transport: mount_afc, the upload, the WAL/SHM cleanup, afc_copy          *)
(***************************************************************************)
\* mount_afc in ifuse mode: the directory is made, an existing mount is
\* kept, otherwise the ifuse attempts succeed (ok) or not
mount_afc(ok) == mount_dir' = TRUE /\ mounted' = (mounted \/ ok)

\* what the upload step does when mount_afc returns False
on_mount_failure(v) ==
    IF v \in {"cli", "legacy"} THEN "fallback"     \* self.afc_mode = "pymobiledevice3"
    ELSE "ignore"                                  \* automation.mount_afc(), result unused

Mount ==
    /\ pc = "mount"
    /\ pc' = next_step(pc)
    /\ IF afc_mode = "ifuse"
       THEN \E ok \in BOOLEAN :
               /\ mount_afc(ok)
               /\ afc_mode' = IF ~(mounted \/ ok) /\ on_mount_failure(variant) = "fallback"
                              THEN "pymobiledevice3" ELSE afc_mode
       ELSE UNCHANGED mount_vars
    /\ UNCHANGED <<config, device_info, guid, attempt_count, extract_vars,
                   reboot_vars, db, end_vars, hist>>

\* removes issued before the push of the payload
upload_removes(v, mode, present) ==
    CASE v = "macos" -> 0                               \* push_file only
      [] mode = "ifuse" -> IF present THEN 1 ELSE 0     \* if os.path.exists(fpath): os.remove(fpath)
      [] OTHER -> 1                                     \* pymobiledevice3 afc rm target

Upload ==
    /\ pc = "upload"
    /\ \E ok \in BOOLEAN, present \in BOOLEAN :
          LET h == [hist EXCEPT !.removed = @ \/ upload_removes(variant, afc_mode, present) > 0,
                                !.pushed = TRUE]
          IN  IF ok
              THEN /\ pc' = next_step(pc)
                   /\ hist' = [step(h, "PayloadUploaded") EXCEPT !.uploaded = TRUE]
                   \* Path(db_local).unlink()
                   /\ db' = IF variant = "macos" THEN NoPayload ELSE db
                   /\ UNCHANGED <<config, mount_vars, device_info, guid, attempt_count,
                                  extract_vars, reboot_vars, end_vars>>
              ELSE Abort(h, "upload")

\* removes issued by the cleanup of the stale -wal / -shm files (macos: the
\* three rm_file calls before the push)
cleanup_removes(v, mode, present) ==
    CASE v = "macos" -> 3
      [] mode = "ifuse" -> present
      [] OTHER -> 2

CleanupWal ==
    /\ pc = "cleanup_wal"
    /\ \E present \in 0..2 :
          /\ pc' = next_step(pc)
          /\ hist' = [step(hist, "StaleArtifactsCleaned") EXCEPT
                         !.removed = @ \/ cleanup_removes(variant, afc_mode, present) > 0]
    /\ UNCHANGED <<config, mount_vars, device_info, guid, attempt_count,
                   extract_vars, reboot_vars, db, end_vars>>

\* a backend that gives up the mount as soon as a remount fails
backend_after_remount_fallback(mode, ok) ==
    IF mode = "ifuse" /\ ~ok THEN "pymobiledevice3" ELSE mode

\* self.afc_mode after the mount_afc call of wait_for_file and afc_copy: neither
\* assigns it, whatever mount_afc returned
backend_after_remount(mode, ok) == mode

\* wait_for_file (desktop worker only): not found in time is fatal there
WaitFile ==
    /\ pc = "wait_file"
    /\ \E appeared \in BOOLEAN, ok \in BOOLEAN :
          /\ IF appeared /\ (afc_mode # "ifuse" \/ mounted \/ ok)
             THEN /\ pc' = next_step(pc)
                  /\ rv' = <<>>
                  /\ IF afc_mode = "ifuse"
                         THEN /\ mount_afc(ok)
                              /\ afc_mode' = backend_after_remount(afc_mode, mounted \/ ok)
                     ELSE UNCHANGED mount_vars
                  /\ hist' = [hist EXCEPT !.polled = "none", !.answered = FALSE]
                  /\ UNCHANGED <<config, device_info, guid, attempt_count,
                                 extract_vars, ret, poll_i, db, end_vars>>
             ELSE Abort(hist, "wait_file")

\* a relocation copy that returns False ends the run only in the worker's
\* forward phase
copy_failure_fatal(v, p) == v = "gui" /\ p = "copy_fwd"

copy_name(p) == IF p = "copy_fwd" THEN "CopyForward" ELSE "CopyBack"

\* afc_copy / pull_file + push_file, forward and back
RelocationCopy ==
    /\ pc \in {"copy_fwd", "copy_back"}
    /\ \E result \in {"remount_failed", "absent", "copied", "push_failed"},
          ok \in BOOLEAN :
          LET h == [step(hist, copy_name(pc)) EXCEPT
                       !.pushed = @ \/ result \in {"copied", "push_failed"},
                       !.copied = IF result = "copied" THEN @ + 1 ELSE @,
                       !.polled = "none", !.answered = FALSE]
          IN  \* if not self.mount_afc(): raise RuntimeError("ifuse remount failed")
              /\ (result = "remount_failed") = (afc_mode = "ifuse" /\ ~(mounted \/ ok))
              /\ IF result # "copied" /\ copy_failure_fatal(variant, pc)
                 THEN Abort(h, pc)
                 ELSE /\ pc' = next_step(pc)
                      /\ hist' = h
                      /\ rv' = <<>>
                      /\ IF afc_mode = "ifuse"
                         THEN /\ mount_afc(ok)
                              /\ afc_mode' = backend_after_remount(afc_mode, mounted \/ ok)
                         ELSE UNCHANGED mount_vars
                      /\ UNCHANGED <<config, device_info, guid, attempt_count,
                                     extract_vars, ret, poll_i, db, end_vars>>

(***************************************************************************)
(* The end of a run                                                         *)
(***************************************************************************)
\* a banner that prints the placeholder instead of the GUID of the run
report_guid_placeholder(v, g) == IF v = "gui" THEN NoGuid ELSE G0

\* the GUID line of the banner: "→ GUID: {self.guid}", "→ Used GUID:
\* {self.guid}"; the worker's finished(True, ...) message carries no GUID
report_guid(v, g) == IF v = "gui" THEN NoGuid ELSE g

\* the success banner / finished(True, ...); client/activator.py stops after
\* the upload with "Ready for manual activation"
Complete ==
    /\ pc = "complete"
    /\ LET name == IF variant = "legacy" THEN "ReadyForManualActivation" ELSE "Complete"
           how  == IF variant = "legacy" THEN "ready" ELSE "complete"
       IN  Leave([step(hist, name) EXCEPT !.outcome = how,
                                         !.reported = report_guid(variant, guid)], 0, TRUE)

\* KeyboardInterrupt, caught by __main__
Interrupt ==
    /\ pc # "exit"
    /\ variant # "gui"
    /\ Leave([hist EXCEPT !.outcome = "interrupt"], interrupt_code(variant), FALSE)

Next ==
    \/ VerifyDependencies
    \/ DetectDevice
    \/ Acquire
    \/ GetGuidManual
    \/ AutoLoop
    \/ Collect
    \/ Scan
    \/ Score
    \/ Confirm
    \/ AttemptDone
    \/ Redetect
    \/ RebootPrimary
    \/ RebootFallback
    \/ RebootManual
    \/ RebootPoll
    \/ CallReboot
    \/ GuidDone
    \/ FetchUrls
    \/ Preload
    \/ Download
    \/ Validate
    \/ Mount
    \/ Upload
    \/ CleanupWal
    \/ WaitFile
    \/ RelocationCopy
    \/ Complete
    \/ Interrupt

Spec == Init /\ [][Next]_vars

(***************************************************************************)
(* The workflow with external commands that may never return: subprocess.run *)
(* waits without limit when its timeout argument is None.                    *)
(***************************************************************************)
\* the steps that run an external command, by the backend selected
command_steps(mode) ==
    {"detect", "collect", "redetect", "reboot_primary", "reboot_fallback",
     "reboot_poll", "fetch_urls", "preload", "download"}
      \cup (IF mode = "ifuse" THEN {"mount", "wait_file", "copy_fwd", "copy_back"}
            ELSE {"upload", "cleanup_wal", "wait_file", "copy_fwd", "copy_back"})

\* the timeout argument of _run_cmd / run_cmd at the step, 0 for None
subprocess_timeout(v, p) ==
    CASE p = "collect" /\ v # "macos" -> 120    \* syslog collect, timeout=120
      [] p = "collect" /\ v = "macos" -> 0      \* idevice_id -l comes first, no timeout
      [] p \in {"reboot_primary", "reboot_fallback"} /\ v = "macos" -> 20
      [] p = "reboot_poll" /\ v = "macos" -> 10
      [] OTHER -> 0

\* curl --max-time of the downloads, 0 where the command line has none
curl_max_time(v, p) ==
    CASE p \in {"preload", "download"} /\ v \in {"cli", "gui"} -> 120
      [] p \in {"preload", "download"} /\ v = "macos" -> 90
      [] OTHER -> 0

\* subprocess.run(..., timeout=None) on a command that does not end
Hang ==
    /\ pc \in command_steps(afc_mode)
    /\ subprocess_timeout(variant, pc) = 0
    /\ curl_max_time(variant, pc) = 0
    /\ pc' = "blocked"
    /\ UNCHANGED <<config, mount_vars, device_info, guid, attempt_count,
                   extract_vars, reboot_vars, db, end_vars, hist>>

NextBlocking ==
    \/ Next
    \/ Hang

SpecBlocking == Init /\ [][NextBlocking]_vars

(***************************************************************************)
(* The desktop window: MainWindow starts a 5 s QTimer on check_device and    *)
(* never stops it; check_device runs on the window's thread while            *)
(* WorkerThread.run runs the workflow.  A state with pc = p is the worker    *)
(* inside step p, waiting for the command of that step.                      *)
(***************************************************************************)
\* the steps whose external command talks to the device (the others run curl)
device_steps(mode) == command_steps(mode) \ {"fetch_urls", "preload", "download"}

\* check_device: ideviceinfo --version, idevice_id -l, ideviceinfo -u <udid>,
\* each run only when the one before succeeded
check_next(cmd, ok) ==
    CASE cmd = None -> "version"
      [] cmd = "version" -> IF ok THEN "list" ELSE None
      [] cmd = "list" -> IF ok THEN "info" ELSE None
      [] cmd = "info" -> None

\* self.start_btn.setEnabled(...) of check_device: False on the return after
\* a command that failed (and in the except branch), True after the last
\* command succeeded
check_button(cmd, ok, enabled) ==
    CASE cmd = None -> enabled
      [] cmd = "info" -> ok
      [] OTHER -> IF ok THEN enabled ELSE FALSE

\* the timer fires, or the command check_device waits for returns
CheckDevice ==
    /\ variant = "gui"
    /\ \E ok \in BOOLEAN :
          /\ check_cmd' = check_next(check_cmd, ok)
          /\ start_btn' = check_button(check_cmd, ok, start_btn)
    /\ UNCHANGED <<config, pc, mount_vars, device_info, guid, attempt_count,
                   extract_vars, reboot_vars, db, exit_code, finished, workers, hist>>

NextDesktop ==
    \/ Next
    \/ CheckDevice

SpecDesktop == Init /\ [][NextDesktop]_vars

(***************************************************************************)
(* The desktop window by itself.  The handlers of MainWindow run one at a   *)
(* time on the window's thread (none while check_device waits for a         *)
(* command); of a worker the window sees only whether its run has returned  *)
(* (isRunning) and the finished signal it has queued.                       *)
(***************************************************************************)
MaxRuns == 3        \* workers started during the life of the window

\* a start that never refuses
start_refused_never(n) == FALSE

\* if self.worker and self.worker.isRunning(): return
start_refused(n) == n > 0

\* the statements of WorkerThread.run that raise, or exit, when they fail
WorkerFailures ==
    {"start", "detect", "acquire", "fetch_urls", "download", "validate",
     "upload", "wait_file", "copy_fwd"}

\* MainWindow.__init__: no worker, the button as QPushButton makes it
InitWindow ==
    /\ variant = "gui"
    /\ auto_confirm_guid = TRUE
    /\ auto = FALSE
    /\ preset_guid = NoGuid
    /\ pc = "idle"
    /\ ret = None
    /\ afc_mode = None
    /\ mount_dir = FALSE
    /\ mounted = FALSE
    /\ device_info = NoDevice
    /\ guid = NoGuid
    /\ attempt_count = 0
    /\ tracev3 = <<>>
    /\ log_archive = FALSE
    /\ candidates = <<>>
    /\ best = NoGuid
    /\ found = NoGuid
    /\ poll_i = 0
    /\ rv = <<>>
    /\ db = NoPayload
    /\ exit_code = <<>>
    /\ finished = <<>>
    /\ check_cmd = None
    /\ start_btn = TRUE
    /\ workers = 0
    /\ hist = Hist0

\* start_activation, the slot of start_btn.clicked: a disabled button emits
\* no click
StartActivation ==
    /\ variant = "gui"
    /\ start_btn
    /\ check_cmd = None
    /\ hist.started < MaxRuns
    /\ IF start_refused(workers)
       THEN UNCHANGED vars
       ELSE /\ start_btn' = FALSE
            /\ workers' = workers + 1         \* self.worker = WorkerThread(); self.worker.start()
            /\ pc' = "start"
            /\ hist' = [Hist0 EXCEPT !.started = hist.started + 1]
            /\ UNCHANGED <<config, mount_vars, device_info, guid, attempt_count,
                           extract_vars, reboot_vars, db, exit_code, finished,
                           check_cmd>>

\* WorkerThread.run as the window sees it: it ends with finished.emit(True, ...)
\* or, from a statement that failed, finished.emit(False, ...), and returns
WorkerRun ==
    /\ variant = "gui"
    /\ pc = "start"
    /\ \E where \in WorkerFailures \cup {None} :
          IF where = None
          THEN Leave([hist EXCEPT !.outcome = "complete"], 0, TRUE)
          ELSE Abort(hist, where)

\* on_finished, the slot of worker.finished
OnFinished ==
    /\ variant = "gui"
    /\ finished # <<>>
    /\ check_cmd = None
    /\ start_btn' = TRUE
    /\ finished' = <<>>
    /\ UNCHANGED <<config, pc, mount_vars, device_info, guid, attempt_count,
                   extract_vars, reboot_vars, db, exit_code, check_cmd, workers, hist>>

NextWindow ==
    \/ StartActivation
    \/ WorkerRun
    \/ CheckDevice
    \/ OnFinished

SpecWindow == InitWindow /\ [][NextWindow]_vars

(***************************************************************************)
(* One extraction attempt on every trace file up to MaxTokens tokens: the   *)
(* run of Spec at the point where the first attempt has read its file.      *)
(***************************************************************************)
InitScan ==
    /\ variant \in Variants
    /\ auto_confirm_guid = (variant = "gui")
    /\ auto = (variant = "macos")
    /\ preset_guid = NoGuid
    /\ pc = "scan"
    /\ ret = None
    /\ afc_mode = (IF variant = "macos" THEN None ELSE "pymobiledevice3")
    /\ mount_dir = FALSE
    /\ mounted = FALSE
    /\ device_info \in DeviceInfos
    /\ device_info.SerialNumber = "ABC123"
    /\ guid = NoGuid
    /\ attempt_count = (IF variant = "legacy" THEN 0 ELSE 1)
    /\ tracev3 \in TraceFiles
    /\ log_archive = TRUE
    /\ candidates = <<>>
    /\ best = NoGuid
    /\ found = NoGuid
    /\ poll_i = 0
    /\ rv = <<>>
    /\ db = NoPayload
    /\ exit_code = <<>>
    /\ finished = <<>>
    /\ check_cmd = None
    /\ start_btn = FALSE
    /\ workers = (IF variant = "gui" THEN 1 ELSE 0)
    /\ hist = [Hist0 EXCEPT !.steps = <<"DependencyCheck", "DeviceDetected">>,
                            !.started = workers,
                            !.attempts = 1]

NextScan ==
    \/ Scan
    \/ Score
    \/ Confirm

SpecScan == InitScan /\ [][NextScan]_vars

\* Two attempts of one session on the identical trace file: the second call
\* of get_guid_enhanced collects and reads the bytes the first one read.
InitTwice ==
    /\ variant \in Variants
    /\ auto_confirm_guid = (variant = "gui")
    /\ auto = (variant = "macos")
    /\ preset_guid = NoGuid
    /\ pc = "scan"
    /\ ret = None
    /\ afc_mode = (IF variant = "macos" THEN None ELSE "pymobiledevice3")
    /\ mount_dir = FALSE
    /\ mounted = FALSE
    /\ device_info \in DeviceInfos
    /\ device_info.SerialNumber = "ABC123"
    /\ guid = NoGuid
    /\ attempt_count = (IF variant = "legacy" THEN 0 ELSE 1)
    /\ tracev3 \in TraceFiles
    /\ log_archive = TRUE
    /\ candidates = <<>>
    /\ best = NoGuid
    /\ found = NoGuid
    /\ poll_i = 0
    /\ rv = <<>>
    /\ db = NoPayload
    /\ exit_code = <<>>
    /\ finished = <<>>
    /\ check_cmd = None
    /\ start_btn = FALSE
    /\ workers = (IF variant = "gui" THEN 1 ELSE 0)
    /\ hist = [Hist0 EXCEPT !.steps = <<"DependencyCheck", "DeviceDetected">>,
                            !.started = workers,
                            !.attempts = 1, !.buffer = tracev3]

\* the next call of get_guid_enhanced, on a log archive with the same bytes
Recollect ==
    /\ pc = "attempt_done"
    /\ hist.attempts = 1
    /\ attempt_count' = attempt_count + 1
    /\ tracev3' = hist.buffer
    /\ log_archive' = TRUE
    /\ found' = NoGuid
    /\ pc' = "scan"
    /\ hist' = [hist EXCEPT !.prior = <<hist.decision, hist.tier>>,
                            !.decision = NoDecision, !.tier = None,
                            !.asked = FALSE, !.approved = FALSE,
                            !.attempts = @ + 1]
    /\ UNCHANGED <<config, mount_vars, device_info, guid, candidates, best,
                   reboot_vars, db, end_vars>>

NextTwice ==
    \/ Scan
    \/ Score
    \/ Confirm
    \/ Recollect

SpecTwice == InitTwice /\ [][NextTwice]_vars

(***************************************************************************)
(* Properties                                                               *)
(***************************************************************************)

\* C1: no file push and no file remove is issued to the device before the
\* final payload has passed validation; a run that ends on a validation
\* failure has issued none at all.
C1_NoDeviceWriteBeforeValidation ==
    /\ (hist.pushed \/ hist.removed) => hist.validated
    /\ hist.fatal_at = "validate" => ~hist.pushed /\ ~hist.removed

\* a run that has validated its payload and then pushed it
C1_Witness == hist.validated /\ hist.pushed /\ pc # "exit"

\* C2: the validation step passes exactly when the downloaded database has
\* a table asset with at least one row, and a failed validation ends the run
\* with exit code 1.
C2_ValidationIffAssetRows ==
    [][(pc = "validate" /\ hist'.outcome # "interrupt") =>
          /\ hist'.validated <=> (db.sqlite /\ db.asset /\ db.rows > 0)
          /\ ~hist'.validated => exit_code' = <<1>>]_vars

\* C3: every run that reaches Complete has performed, in this order: the
\* dependency check, device detection, GUID acceptance, the URL fetch, the
\* pre-load, the validation, the upload, the cleanup of stale WAL/SHM files,
\* the first reboot and the forward copy, the second reboot and the copy
\* back, the final reboot, Complete.
C3_StepOrder ==
    hist.outcome = "complete" =>
        hist.steps = <<"DependencyCheck", "DeviceDetected", "GuidAccepted",
                       "PayloadUrlsFetched", "PayloadsPreloaded",
                       "FinalPayloadValidated", "PayloadUploaded",
                       "StaleArtifactsCleaned", "FirstReboot", "CopyForward",
                       "SecondReboot", "CopyBack", "FinalReboot", "Complete">>

\* C4 (as stated): no reboot request is issued to the device until the
\* payload upload has succeeded.
C4_NoRebootBeforeUpload == hist.reboots > 0 => hist.uploaded

\* C4 (amended): until the payload upload has succeeded, the only reboot
\* requests issued are those of the GUID retry loop; the first, second and
\* final reboot of the main line all follow the upload.
C4_OnlyRetryRebootsBeforeUpload ==
    ~hist.uploaded => hist.reboots = hist.retry_reboots

\* a run that rebooted in the retry loop, uploaded, then requested the first reboot
C4_Witness ==
    hist.uploaded /\ hist.retry_reboots > 0 /\ hist.reboots > hist.retry_reboots

C6_ExhaustionFallsBackToManual ==
    [][(~hist.exhausted /\ hist'.exhausted) => (pc' = "manual" /\ guid' = guid)]_vars

\* C7: no run is aborted during the GUID acquisition phase: a failed
\* attempt leads to another attempt or to manual entry.
C7_NoAbortDuringAcquisition == hist.fatal_at # "acquire"

\* C8: an attempt returns a GUID only if its decision is HIGH and nothing
\* was asked, or it is MEDIUM/LOW and the confirmation was asked for and
\* given; a rejected confirmation returns no GUID.
C8_ReturnOnlyHighOrApproved ==
    pc = "attempt_done" =>
        /\ found # NoGuid =>
               \/ hist.tier = "HIGH" /\ ~hist.asked
               \/ hist.tier \in {"MEDIUM", "LOW"} /\ hist.asked /\ hist.approved
        /\ (hist.asked /\ ~hist.approved) => found = NoGuid

\* C9: every candidate handed to the scorer is an uppercase canonical
\* 8-4-4-4-12 GUID whose version nibble is 4 and whose variant nibble is
\* 8, 9, A or B.
C9_CandidatesWellFormed ==
    pc \in {"score", "confirm"} =>
        \A n \in 1..Len(candidates) :
            LET g == candidates[n].guid
            IN  /\ UUID_PATTERN_match(g)
                /\ upper(g) = g
                /\ g[15] = "4"
                /\ g[20] \in {"8", "9", "A", "B"}

\* C10: on a buffer in which the anchor does not occur the scanner gives
\* the empty candidate list and the attempt ends cleanly: no GUID is
\* returned, no confirmation is asked for, no error ends the run.
C10_NoAnchorFailsCleanly ==
    [][(pc \in {"scan", "score"} /\ \A n \in 1..Len(tracev3) : tracev3[n] # "anchor") =>
          /\ candidates' = <<>>
          /\ found' = NoGuid
          /\ pc' \in {"score", "attempt_done"}
          /\ ~hist'.asked
          /\ hist'.outcome = None]_vars

\* the scanner has run on a buffer holding a valid GUID next to a string
\* that is only a prefix of the anchor
C10_Witness ==
    /\ pc = "score"
    /\ tracev3 = <<"prefix", "G1">>
    /\ candidates = <<>>

C12_NoLogArchiveAfterAttempt ==
    pc = "attempt_done" => ~log_archive

\* C13: when the mount backend is selected and mount_afc fails at the upload,
\* the backend becomes the command backend, and no payload is pushed through
\* the mount-point directory while it is not mounted.
C13_MountFailureDowngrades ==
    [][/\ (pc = "mount" /\ pc' = "upload" /\ afc_mode = "ifuse" /\ ~mounted')
            => afc_mode' = "pymobiledevice3"
       /\ (pc = "upload" /\ afc_mode = "ifuse" /\ hist'.pushed)
            => mounted]_vars

\* C14: the backend is chosen by the dependency check and changes afterwards
\* only in the upload's fallback, from the mount backend to the command
\* backend; wait_for_file and afc_copy leave it alone, and a relocation copy
\* whose remount failed copies nothing.
C14_BackendChangesOnlyByFallback ==
    [][/\ (afc_mode' # afc_mode)
            => \/ (pc = "start" /\ afc_mode = None)
               \/ (pc = "mount" /\ afc_mode = "ifuse" /\ afc_mode' = "pymobiledevice3")
       /\ (pc \in {"wait_file", "copy_fwd", "copy_back"}) => afc_mode' = afc_mode
       /\ (pc \in {"copy_fwd", "copy_back"} /\ afc_mode = "ifuse" /\ ~mounted'
             /\ hist'.steps # hist.steps)
            => hist'.pushed = hist.pushed]_vars

\* a relocation copy was skipped because the remount failed, and the run goes
\* on with the mount backend still selected
C14_Witness ==
    /\ pc \notin {"exit", "copy_fwd", "copy_back"}
    /\ afc_mode = "ifuse"
    /\ ~mounted
    /\ hist.steps # <<>>
    /\ hist.steps[Len(hist.steps)] \in {"CopyForward", "CopyBack"}

\* C15: when the process exits, whatever the exit path, the mount point is
\* not mounted and its directory no longer exists.
C15_MountPointRemovedAtExit ==
    exit_code # <<>> => (~mounted /\ ~mount_dir)

\* C16: when reboot_device gives up waiting and returns False, at any of its
\* call sites, the run is not ended: control goes on to the call site's next
\* step.
C16_RebootTimeoutNotFatal ==
    [][(pc = "reboot_poll" /\ rv' = <<FALSE>>)
          => (pc' = ret /\ pc' # "exit" /\ exit_code' = <<>> /\ finished' = <<>>)]_vars

\* a run that completed although none of its reboots saw the device return
C16_Witness ==
    /\ hist.outcome = "complete"
    /\ hist.reboots >= 3
    /\ ~hist.booted

\* C17: a relocation copy that finds no source file, or fails, never ends the
\* run: neither the forward nor the back phase is a place where a run aborts.
C17_RelocationNeverFatal ==
    hist.fatal_at \notin {"copy_fwd", "copy_back"}

\* C18: a failed pre-load does not end the run; the run gets past the
\* download only with the final payload in hand and past the upload only with
\* the payload uploaded, a failure of either ends it with exit code 1 (the
\* worker thread: finished(False)), and nothing is executed after the end.
C18_TransferFatalOnlyOnFinalPayload ==
    [][/\ pc = "preload" => (pc' # "exit" \/ hist'.outcome = "interrupt")
       /\ (pc = "download" /\ pc' # "exit") => hist'.downloaded
       /\ (pc = "upload" /\ pc' # "exit") => hist'.uploaded
       /\ (pc \in {"download", "upload"} /\ hist'.outcome = "fatal")
            => /\ pc' = "exit"
               /\ variant # "gui" => exit_code' = <<1>>
               /\ variant = "gui" => finished' = <<FALSE>>
       /\ pc # "exit"]_vars

\* a pre-load has failed and the run stands at the download of the final
\* payload
C18_Witness ==
    /\ pc = "download"
    /\ hist.preload_failed

\* C19 (as stated): an API request that fails, a non-success answer, malformed
\* JSON or a missing link ends the run with exit code 1 (the worker thread:
\* finished(False)) before any download, upload, reboot or relocation.
C19_ApiFailureAbortsBeforeAnyReboot ==
    hist.api_answer \notin {None, "ok"}
        => /\ pc = "exit"
           /\ hist.fatal_at = "fetch_urls"
           /\ variant # "gui" => exit_code = <<1>>
           /\ variant = "gui" => finished = <<FALSE>>
           /\ ~hist.downloaded /\ ~hist.pushed /\ ~hist.uploaded
           /\ \A i \in 1..Len(hist.steps) : hist.steps[i] \notin {"CopyForward", "CopyBack"}
           /\ hist.reboots = 0

\* C19 (amended): as above, but the reboots of the GUID retry loop may have
\* taken place; no reboot of the workflow itself has.
C19_ApiFailureAbortsBeforeWorkflow ==
    hist.api_answer \notin {None, "ok"}
        => /\ pc = "exit"
           /\ hist.fatal_at = "fetch_urls"
           /\ variant # "gui" => exit_code = <<1>>
           /\ variant = "gui" => finished = <<FALSE>>
           /\ ~hist.downloaded /\ ~hist.pushed /\ ~hist.uploaded
           /\ \A i \in 1..Len(hist.steps) : hist.steps[i] \notin {"CopyForward", "CopyBack"}
           /\ hist.reboots = hist.retry_reboots

\* the API answered without the three links after a retry reboot
C19_Witness ==
    /\ hist.api_answer = "missing_link"
    /\ hist.fatal_at = "fetch_urls"
    /\ hist.retry_reboots > 0

\* C20: the payload API is called once in a run, at the URL step and not
\* again, and its query string is prd=<ProductType>&guid=<GUID>&sn=<SerialNumber>
\* in this order, with the product type and serial number of the detected
\* device and the GUID the run goes on with, each as it stands.
C20_OneApiCallWithQueryString ==
    [][/\ (hist'.requests # hist.requests)
            => /\ pc = "fetch_urls"
               /\ hist.requests = <<>>
               /\ guid # NoGuid
               /\ device_info # NoDevice
               /\ hist'.requests = << <<"prd=", device_info.ProductType,
                                        "&guid=", guid,
                                        "&sn=", device_info.SerialNumber>> >>
       /\ (pc = "fetch_urls" /\ hist'.outcome # "interrupt")
            => Len(hist'.requests) = 1]_vars

\* the API was called for the second device with the GUID of the run, and the
\* run went on
C20_Witness ==
    /\ Len(hist.requests) = 1
    /\ hist.api_answer = "ok"
    /\ pc # "exit"
    /\ guid = G1
    /\ hist.requests[1] = <<"prd=", "iPhone13,2", "&guid=", G1, "&sn=", "DEF456">>

\* C21: a process that has exited has code 0 exactly when the run succeeded
\* or was interrupted by the user, and code 1 exactly when it ended on an
\* unrecoverable error.
C21_ExitCodeByOutcome ==
    exit_code # <<>>
        => /\ exit_code \in {<<0>>, <<1>>}
           /\ (exit_code = <<0>>) = (hist.outcome \in {"complete", "ready", "interrupt"})
           /\ (exit_code = <<1>>) = (hist.outcome = "fatal")

\* C22: when a tool the workflow requires cannot be located, the run ends in
\* the dependency check, before any command has gone to the device.
C22_MissingToolAbortsInDependencyCheck ==
    hist.absent # None
        => /\ pc = "exit"
           /\ hist.fatal_at = "start"
           /\ hist.steps = <<>>

\* C23: no external command blocks the workflow for ever: the run is never
\* left waiting in a command that has no time limit.
C23_NoCommandBlocksForever ==
    pc # "blocked"

\* C24: once the device identity has been captured no step of the running
\* workflow writes it again: it keeps its value to the end of the run.
C24_DeviceIdentityWrittenOnce ==
    [][(device_info # NoDevice /\ pc' # "exit") => device_info' = device_info]_vars

\* C25: once the session GUID holds a value it keeps it for the rest of the
\* workflow, and that value is the one sent to the payload API and the one
\* the completion report prints.
C25_OneGuidPerSession ==
    [][/\ (guid # NoGuid /\ pc' # "exit") => guid' = guid
       /\ (hist'.requests # hist.requests)
            => (guid # NoGuid /\ hist'.requests[1][4] = guid)
       /\ (hist'.reported # hist.reported)
            => (hist'.reported = guid /\ hist.requests[1][4] = guid)]_vars

\* a completed run whose report shows the GUID that went to the API
C25_Witness ==
    /\ hist.outcome = "complete"
    /\ hist.reported = G1
    /\ hist.requests[1][4] = G1

\* C26: at no moment are two external device commands in flight: while the
\* workflow waits for a device command, the window's device check waits for
\* none.
C26_OneDeviceCommandAtATime ==
    ~(pc \in device_steps(afc_mode) /\ check_cmd \in {"list", "info"})

\* C27: the score the scorer gives an identifier is 10 for each of its
\* occurrences, plus 5 for each occurrence less than 100 bytes from its
\* anchor, plus 3 for each occurrence in front of its anchor.
C27_ScoreFormula ==
    [][(pc = "score" /\ variant \in {"cli", "gui", "macos"}
          /\ hist'.decision.guid # NoGuid)
        => LET g   == hist'.decision.guid
               occ == {n \in 1..Len(candidates) : candidates[n].guid = g}
           IN  hist'.decision.score
                 = 10 * Cardinality(occ)
                   + 5 * Cardinality({n \in occ : candidates[n].position < 100
                                                  /\ candidates[n].position > -100})
                   + 3 * Cardinality({n \in occ : candidates[n].position < 0})]_vars

\* C28: the tier of a decision is given by its score alone: HIGH from 30,
\* MEDIUM from 15 up to 29, LOW below 15.
C28_TierByScore ==
    (variant \in {"cli", "gui"} /\ hist.decision.guid # NoGuid)
        => hist.tier = (IF hist.decision.score >= 30 THEN "HIGH"
                        ELSE IF hist.decision.score >= 15 THEN "MEDIUM"
                        ELSE "LOW")

\* a decision whose score is exactly the HIGH threshold
C28_Witness ==
    /\ variant \in {"cli", "gui"}
    /\ hist.decision.guid # NoGuid
    /\ hist.decision.score = 30
    /\ hist.tier = "HIGH"

\* C29: the decision is an identifier no other identifier of the candidate
\* list outscores, and of the identifiers with the highest score it is the one
\* that comes first in the candidate list (the order of discovery).
C29_DecisionIsFirstTopScore ==
    [][(pc = "score" /\ variant \in {"cli", "gui"} /\ hist'.decision.guid # NoGuid)
        => LET w == hist'.decision.guid
               first(g) == CHOOSE n \in 1..Len(candidates) :
                              /\ candidates[n].guid = g
                              /\ \A k \in 1..(n - 1) : candidates[k].guid # g
           IN  \A n \in 1..Len(candidates) :
                  LET g == candidates[n].guid
                  IN  /\ score_of(candidates, g) <= score_of(candidates, w)
                      /\ score_of(candidates, g) = score_of(candidates, w)
                           => first(w) <= first(g)]_vars

\* two identifiers with the same score, and the one discovered first decided
C29_Witness ==
    /\ variant \in {"cli", "gui"}
    /\ pc = "confirm"
    /\ hist.decision.guid = G2
    /\ \E n \in 1..Len(candidates) :
          /\ candidates[n].guid = G1
          /\ score_of(candidates, G1) = hist.decision.score

\* C30: on a buffer with one anchor and one valid candidate, found once, the
\* decision is that candidate; its tier is LOW, or MEDIUM when the bonuses for
\* proximity and direction bring the score to 15 or more, and never HIGH.
C30_SingleCandidateLowOrMedium ==
    [][(/\ pc = "score"
        /\ variant \in {"cli", "gui"}
        /\ Len(find_all(read_bytes(tracev3), Anchor, Len(Anchor))) = 1
        /\ Len(candidates) = 1)
        => LET p == candidates[1].position
               bonus == (IF p < 100 /\ p > -100 THEN 5 ELSE 0) + (IF p < 0 THEN 3 ELSE 0)
           IN  /\ hist'.decision.guid = candidates[1].guid
               /\ hist'.decision.count = 1
               /\ hist'.decision.score = 10 + bonus
               /\ hist'.tier = (IF 10 + bonus >= 15 THEN "MEDIUM" ELSE "LOW")
               /\ hist'.tier # "HIGH"
               /\ pc' = "confirm" /\ best' = candidates[1].guid]_vars

\* a single far candidate was scored 10 and got the LOW tier
C30_Witness ==
    /\ variant \in {"cli", "gui"}
    /\ pc = "confirm"
    /\ Len(find_all(read_bytes(tracev3), Anchor, Len(Anchor))) = 1
    /\ Len(candidates) = 1
    /\ best = candidates[1].guid
    /\ hist.decision.score = 10
    /\ hist.tier = "LOW"

\* C31: the candidates of an anchor occurrence at offset p are exactly the
\* valid GUID substrings that lie wholly inside [p - 512, p + 512] clipped to
\* the buffer, in buffer order, each with the offset (start minus p), which
\* lies between -512 and 512; the candidate list is these, anchor by anchor.
C31_CandidatesAreWindowGuids ==
    [][(pc = "scan" /\ variant \in {"cli", "gui", "macos"})
        => LET data == read_bytes(tracev3)
               anchors == scan_from({p \in 0..(Len(data) - 17) : occurs_at(data, Anchor, p)}, 0, 1)
               inside(p) ==
                   LET lo == max0(p - 512)
                       hi == min2(Len(data), p + 512)
                       ks == scan_from({k \in lo..(hi - 36) :
                                          /\ guid_pattern_at(data, k, hi)
                                          /\ validate_guid(upper(slice(data, k, 36)))},
                                       lo, 1)
                   IN  [n \in 1..Len(ks) |->
                          [guid |-> upper(slice(data, ks[n], 36)), position |-> ks[n] - p]]
               expected == flatten([n \in 1..Len(anchors) |-> inside(anchors[n])])
           IN  /\ IF pc' = "score" THEN candidates' = expected ELSE expected = <<>>
               /\ \A n \in 1..Len(candidates') :
                     candidates'[n].position >= -512 /\ candidates'[n].position <= 512]_vars

\* C32: every occurrence of the anchor in the buffer is scanned once, and the
\* count of an identifier is the number of pairs (anchor occurrence, valid
\* GUID substring of that anchor's window with this value): a GUID in
\* the windows of k anchor occurrences counts k times.
C32_CountIsAnchorWindowPairs ==
    [][(pc = "scan" /\ variant \in {"cli", "gui"})
        => LET data == read_bytes(tracev3)
               value(k) == upper(slice(data, k, 36))
               guids == {k \in 0..(Len(data) - 36) :
                           guid_pattern_at(data, k, Len(data)) /\ validate_guid(value(k))}
               anchors == {p \in 0..(Len(data) - 17) : occurs_at(data, Anchor, p)}
               pairs(g) == {<<p, k>> \in anchors \X guids :
                              /\ value(k) = g
                              /\ k >= p - 512
                              /\ k + 36 <= p + 512}
               counted(g) == IF pc' = "score"
                             THEN Cardinality({n \in 1..Len(candidates') : candidates'[n].guid = g})
                             ELSE 0
           IN  \A k \in guids : counted(value(k)) = Cardinality(pairs(value(k)))]_vars

\* C33: the wait of reboot_device makes at most 60 device-info queries; a
\* failed query is followed by the next one while fewer than 60 were made;
\* the first query that succeeds ends the wait with True; the wait ends with
\* False exactly when 60 queries were made and the last one failed too.
C33_WaitPollsAtMostMaxPolls ==
    [][pc = "reboot_poll"
        => /\ poll_i < 60
           /\ pc' = "reboot_poll" => (poll_i' = poll_i + 1 /\ poll_i' < 60 /\ rv' = <<>>)
           /\ pc' \notin {"reboot_poll", "exit"}
                => /\ pc' = ret
                   /\ hist'.polled = (IF poll_i + 1 = 60 THEN "all" ELSE "some")
                   /\ rv' = <<hist'.answered>>
                   /\ ~hist'.answered => hist'.polled = "all"]_vars

\* reboot_device has returned True on its 60th query
C33_Witness ==
    /\ rv = <<TRUE>>
    /\ hist.polled = "all"
    /\ hist.answered

\* C34: reboot_device begins with the primary restart command; the fallback
\* command is run only after the primary has failed and the operator is
\* asked only after the fallback has failed too; the wait begins only after
\* a restart command was accepted; once the prompt is acknowledged
\* reboot_device returns True without a single device-info query.
C34_PrimaryFallbackManual ==
    [][/\ (pc' = "reboot_primary" /\ pc # "reboot_primary")
            => pc \in {"reboot1", "reboot2", "reboot3", "attempt_done"}
       /\ (pc' = "reboot_fallback" /\ pc # "reboot_fallback") => pc = "reboot_primary"
       /\ (pc' = "reboot_manual" /\ pc # "reboot_manual") => pc = "reboot_fallback"
       /\ (pc' = "reboot_poll" /\ pc # "reboot_poll")
            => pc \in {"reboot_primary", "reboot_fallback"} /\ poll_i' = 0
       /\ (pc = "reboot_manual" /\ pc' # "exit")
            => /\ rv' = <<TRUE>>
               /\ pc' = ret
               /\ hist'.polled = "none"]_vars

\* reboot_device has returned True from the manual prompt
C34_Witness ==
    /\ rv = <<TRUE>>
    /\ hist.polled = "none"
    /\ hist.booted
    /\ pc \notin {"reboot_primary", "reboot_fallback", "reboot_manual", "reboot_poll"}

\* C35: a run that prints the success report ("Payload deployed, plist synced
\* x2, 3 reboots performed") has uploaded the payload, has copied the
\* configuration file forward and back, and has called for exactly three
\* reboots.
C35_SuccessReportIsTrue ==
    (hist.outcome = "complete" /\ variant \in {"cli", "macos"})
        => /\ hist.uploaded
           /\ hist.copied = 2
           /\ hist.reboots = 3

\* C36: an identifier found c times is scored between 10 * c and 18 * c.  So
\* an identifier found three times or more has a HIGH score whatever its
\* offsets, and when the decision falls on it the attempt returns it without
\* asking; an identifier found once never has a HIGH score, and a decision
\* for it goes to the confirmation.
C36_ScoreBoundsByCount ==
    [][(pc = "score" /\ variant \in {"cli", "gui"})
        => LET scored == analyze_guid_confidence(candidates)
               occ(g) == Cardinality({n \in 1..Len(candidates) : candidates[n].guid = g})
           IN  /\ \A n \in 1..Len(scored) :
                     /\ scored[n].count = occ(scored[n].guid)
                     /\ 10 * scored[n].count <= scored[n].score
                     /\ scored[n].score <= 18 * scored[n].count
                     /\ scored[n].count >= 3 => confidence(scored[n].score) = "HIGH"
                     /\ scored[n].count = 1 => confidence(scored[n].score) # "HIGH"
               /\ (\E n \in 1..Len(scored) : scored[n].count >= 3) => hist'.tier = "HIGH"
               /\ hist'.decision.count >= 3
                    => /\ hist'.tier = "HIGH"
                       /\ ~hist'.asked
                       /\ pc' = "attempt_done"
                       /\ found' = hist'.decision.guid
               /\ hist'.decision.count = 1
                    => hist'.tier # "HIGH" /\ hist'.asked /\ pc' = "confirm"]_vars

\* three occurrences, none of them close to or in front of the anchor, were
\* scored 30 and returned without a confirmation
C36_Witness ==
    /\ variant \in {"cli", "gui"}
    /\ pc = "attempt_done"
    /\ hist.decision.count = 3
    /\ hist.decision.score = 30
    /\ hist.tier = "HIGH"
    /\ ~hist.asked
    /\ found = hist.decision.guid

\* C37: the GUID of every request sent to the payload API is an uppercase
\* string of the shape 8-4-4-4-12 of hexadecimal digits, whether it came from
\* the extraction, the prompt, the command line or the worker's substitute.
C37_RequestGuidCanonical ==
    \A n \in 1..Len(hist.requests) :
        LET g == hist.requests[n][4]
        IN  /\ Len(g) = 36
            /\ \A j \in 1..36 :
                  IF j \in {9, 14, 19, 24} THEN g[j] = "-" ELSE g[j] \in UpperHex

\* C38: the attempt counter stays within 0..max_attempts (10).  The retry loop
\* calls for a reboot only after a failed attempt that is not the tenth, once
\* for each: the k-th failed attempt is followed by the k-th retry reboot, the
\* tenth by none.  So the loop makes at most 9 reboots, and when it gives up
\* it has made 10 attempts and 9 reboots and hands back no GUID.
C38_AttemptsAndRetryRebootsBounded ==
    [][/\ attempt_count >= 0 /\ attempt_count <= 10
       /\ attempt_count' >= 0 /\ attempt_count' <= 10
       /\ hist'.retry_reboots <= 9
       /\ hist'.retry_reboots # hist.retry_reboots
            => /\ hist'.retry_reboots = hist.retry_reboots + 1
               /\ pc = "attempt_done" /\ found = NoGuid
               /\ attempt_count < 10
               /\ hist'.retry_reboots = attempt_count
               /\ pc' = "reboot_primary"
       /\ (pc = "attempt_done" /\ found = NoGuid /\ variant # "legacy" /\ pc' # "exit")
            => IF attempt_count < 10
               THEN hist'.retry_reboots = hist.retry_reboots + 1
               ELSE pc' = "auto_loop" /\ hist'.retry_reboots = hist.retry_reboots
       /\ (~hist.exhausted /\ hist'.exhausted)
            => /\ attempt_count = 10
               /\ hist.attempts = 10
               /\ hist'.retry_reboots = 9
               /\ found = NoGuid
               /\ guid = NoGuid
               /\ pc' \notin {"reboot_primary", "collect"}]_vars

\* the retry loop has given up after its tenth attempt
C38_Witness ==
    /\ hist.exhausted
    /\ attempt_count = 10
    /\ hist.attempts = 10
    /\ hist.retry_reboots = 9
    /\ guid = NoGuid

\* C39: the window never has two workers running.  A worker is started only
\* by a start request made while none is running; a start request made while
\* one is running (the device check may have enabled the button again)
\* changes nothing.  When a worker has finished, its finished signal can be
\* handled, which enables the button, and with the button enabled and no
\* worker running a start request starts a worker.
C39_OneWorkerAtATime ==
    [][/\ workers <= 1 /\ workers' <= 1
       /\ workers' > workers
            => /\ workers = 0 /\ workers' = 1
               /\ start_btn /\ ~start_btn'
               /\ pc' = "start"
               /\ hist'.started = hist.started + 1
       /\ workers = 1 => hist'.started = hist.started
       /\ (pc = "exit" /\ workers = 0 /\ finished # <<>> /\ check_cmd = None)
            => ENABLED OnFinished
       /\ (workers = 0 /\ start_btn /\ check_cmd = None /\ hist.started < MaxRuns)
            => ENABLED (StartActivation /\ workers' = 1)]_vars

\* a second worker is running, the device check has enabled the button again
\* and the window's thread is free to take a click
C39_Witness ==
    /\ workers = 1
    /\ pc = "start"
    /\ hist.started = 2
    /\ start_btn
    /\ check_cmd = None

====
